---- MODULE Spec2Model ----
(***************************************************************************)
(* Registration lifecycle of the go-eureka client (package eureka, the     *)
(* client with RETRY_SECONDS): Register -> Up -> StartHeartbeatDaemon ->   *)
(* SendHeartbeat ... -> Down, with its retry-by-re-registration and its    *)
(* signal-triggered shutdown.                                              *)
(*                                                                         *)
(* Execution contexts: context 0 is the goroutine of the embedding         *)
(* program that calls Register(); context l >= 1 is the l-th goroutine     *)
(* spawned by StartHeartbeatDaemon().  Every context has a call stack of   *)
(* frames; time is a discrete clock advanced by Tick.                      *)
(*                                                                         *)
(* Further specifications: SpecAPI (the program also calls Down()),        *)
(* SpecCodes (answers with their status codes), SpecMarshal (json.Marshal  *)
(* may fail), FairOutage (a registry that never recovers) and SpecFirst    *)
(* (the earlier client of the same package, without retry).                *)
(***************************************************************************)
EXTENDS Integers, Sequences, FiniteSets, TLC

\* ---- bounds of the model ------------------------------------------------
MaxFaults == 2      \* failed registry answers (transport error or bad status)
MaxSignals == 1     \* interrupts delivered to the process
MaxDowns == 2       \* Down() calls made by the embedding program itself

\* ---- program constants --------------------------------------------------
RETRY_SECONDS == 10
HEARTBEAT_SECONDS == 10
GRACE_SECONDS == 3
QUIT_CAPACITY == 1

Ctx == 0 .. (MaxFaults + 1)
Loops == 1 .. (MaxFaults + 1)
Outcomes == {"ok", "status", "err"}

VARIABLES
  stack,     \* per context: its call stack, innermost frame last
  timer,     \* per context: seconds left of its time.Sleep
  ticker,    \* per heartbeat goroutine: its time.Ticker
  quit,      \* number of signals buffered in the quit channel
  notified,  \* signal.Notify(quit, os.Interrupt) has been called
  signals,   \* interrupts delivered to the process so far
  faults,    \* failed registry answers so far
  exited,    \* the process has ended (os.Exit, or a panic nobody recovers)
  nLoops,    \* heartbeat goroutines started so far
  last,      \* per context: the last registry request it issued
  sent,      \* POSTs sent so far, by instance status
  upOk,      \* UP POSTs answered with success so far
  sinceHB,   \* seconds since the last SendHeartbeat() began (at most 10 kept)
  hbEver,    \* SendHeartbeat() has been called
  returned,  \* the calls that returned in the last step, innermost first
  answer     \* the registry answer handled last, where answers are observed

vars == <<stack, timer, ticker, quit, notified, signals, faults, exited,
          nLoops, last, sent, upOk, sinceHB, hbEver, returned, answer>>

\* ---- frames ---------------------------------------------------------------
\* fn, pc: the function and the position in it ("main" stands for the
\* embedding program, "loop" for the goroutine of StartHeartbeatDaemon).  posts, fails, waits, waited,
\* ups, upFailed, regCalls, daemons: what this call (and, for Register, the
\* Register calls it made itself) has done so far; downCalls: the Down()
\* calls it made; nap: the duration of its current time.Sleep; todo: the
\* calls it still has to make (Up: of Register, main: of Down).
Frame(fn, pc) ==
  [fn |-> fn, pc |-> pc, posts |-> 0, fails |-> 0, waits |-> 0, waited |-> 0,
   nap |-> 0, ups |-> 0, upFailed |-> FALSE, regCalls |-> 0, todo |-> 0,
   daemons |-> 0, downCalls |-> 0]

Top(c) == stack[c][Len(stack[c])]
Depth(c) == Len(stack[c])
At(c, fn, pc) == Depth(c) > 0 /\ Top(c).fn = fn /\ Top(c).pc = pc
Last(st) == st[Len(st)]
SetLast(st, f) == [st EXCEPT ![Len(st)] = f]

NoTicker == [left |-> 0, pending |-> FALSE, stopped |-> FALSE]
NoRequest == [kind |-> "NONE", res |-> "none"]
NoReturn == [ctx |-> 0, frames |-> <<>>]
NoAnswer == [err |-> FALSE, code |-> 0]

Success(o) == o = "ok"
CanAnswer(o) == Success(o) \/ faults < MaxFaults
Charge(o) == IF Success(o) THEN faults ELSE faults + 1

\* The state after NewEureka, in a program that calls Register() and then
\* Down() n times.
InitWith(n) ==
  /\ stack = [c \in Ctx |-> IF c = 0
                              THEN <<[Frame("main", "start") EXCEPT !.todo = n]>>
                              ELSE <<>>]
  /\ timer = [c \in Ctx |-> 0]
  /\ ticker = [c \in Ctx |-> NoTicker]
  /\ quit = 0
  /\ notified = FALSE
  /\ signals = 0
  /\ faults = 0
  /\ exited = FALSE
  /\ nLoops = 0
  /\ last = [c \in Ctx |-> NoRequest]
  /\ sent = [k \in {"STARTING", "UP", "DOWN"} |-> 0]
  /\ upOk = 0
  /\ sinceHB = 0
  /\ hbEver = FALSE
  /\ returned = NoReturn
  /\ answer = NoAnswer

Init == InitWith(0)

\* ---- requests -------------------------------------------------------------
\* postRequest / putRequest hand the request to http.DefaultClient.Do and
\* block until the answer: the request is in flight while the frame is at
\* "await".
Issue(lst, c, kind) ==
  [lst EXCEPT ![c] = [kind |-> kind, res |-> "pending"]]
Answer(c, o) == [last EXCEPT ![c].res = IF Success(o) THEN "ok" ELSE "fail"]
Failed(f, o) == [f EXCEPT !.fails = IF Success(o) THEN @ ELSE @ + 1]
Count(kind) == [sent EXCEPT ![kind] = @ + 1]

\* A call of fn from the frame on top of st, left as f: the callee builds
\* its request and blocks in postRequest or putRequest.
Call(st, f, fn) ==
  Append(SetLast(st, f), [Frame(fn, "await") EXCEPT !.posts = 1])

\* time.Sleep(d): the frame remembers d while the context's timer runs.
Nap(f, pc, d) == [f EXCEPT !.pc = pc, !.nap = d]
Woken(c) == timer[c] = 0
Slept(c, f) == [f EXCEPT !.waits = @ + 1, !.waited = @ + (f.nap - timer[c])]

\* The frame and the timers of context c once f has handled its answer: at
\* "ret" it is about to return, elsewhere it is in time.Sleep(RETRY_SECONDS).
After(f, pc) == IF pc = "ret" THEN [f EXCEPT !.pc = pc] ELSE Nap(f, pc, RETRY_SECONDS)
Alarm(c, pc) == IF pc = "ret" THEN timer ELSE [timer EXCEPT ![c] = RETRY_SECONDS]

\* ---- return to the caller -------------------------------------------------
\* The caller's frame f after its callee g has returned.
Resume(f, g) ==
  CASE f.fn = "Register" /\ f.pc = "inRegister" ->
         [f EXCEPT !.pc = "ret", !.posts = @ + g.posts, !.fails = @ + g.fails,
                   !.waits = @ + g.waits, !.waited = @ + g.waited,
                   !.ups = @ + g.ups, !.upFailed = g.upFailed]
    [] f.fn = "Register" /\ f.pc = "inUp" ->
         [f EXCEPT !.pc = "ret", !.upFailed = g.fails > 0]
    [] f.fn = "Up" /\ f.pc = "inRegister" ->
         [f EXCEPT !.pc = IF f.todo > 0 THEN "again" ELSE "ret"]
    [] f.fn = "SendHeartbeat" /\ f.pc = "inRegister" -> [f EXCEPT !.pc = "ret"]
    [] f.fn = "loop" /\ f.pc = "inHeartbeat" -> [f EXCEPT !.pc = "select"]
    [] f.fn = "loop" /\ f.pc = "inDown" ->
         Nap([f EXCEPT !.posts = @ + g.posts], "grace", GRACE_SECONDS)
    [] OTHER -> [f EXCEPT !.pc = "serve"]

Returning(st) == Len(st) >= 2 /\ Last(st).pc = "ret"
Pop(st) == Append(SubSeq(st, 1, Len(st) - 2), Resume(st[Len(st) - 1], Last(st)))

\* Every call that has reached its end returns, innermost first.  (The
\* stack after one return is bound to p so that it is computed once.)
RECURSIVE Settle(_)
Settle(st) ==
  IF Returning(st) THEN CHOOSE r \in {Settle(p) : p \in {Pop(st)}} : TRUE ELSE st

RECURSIVE Popped(_)
Popped(st) ==
  IF Returning(st)
    THEN CHOOSE r \in {<<Last(st)>> \o Popped(p) : p \in {Pop(st)}} : TRUE
    ELSE <<>>

\* Context c runs on from the stacks stk to its next blocking point: its
\* finished calls return; a loop back from Down starts its grace sleep.
Run(c, stk, tmr) ==
  \E from \in {stk[c]} : \E st \in {Settle(from)} :
     /\ stack' = [stk EXCEPT ![c] = st]
     /\ timer' = IF Last(st).pc = "grace" /\ Returning(from)
                   THEN [tmr EXCEPT ![c] = Last(st).nap] ELSE tmr
     /\ returned' = IF Returning(from)
                      THEN [ctx |-> c, frames |-> Popped(from)]
                      ELSE NoReturn

Put(c, f) == [stack EXCEPT ![c] = SetLast(@, f)]
Enter(c, f, fn) == [stack EXCEPT ![c] = Call(@, f, fn)]

\* ---- the embedding program (README: NewEureka, Register, ListenAndServe) --
CallRegister ==
  /\ ~exited
  /\ At(0, "main", "start")
  /\ Run(0, Enter(0, [Top(0) EXCEPT !.pc = "inRegister", !.regCalls = @ + 1],
                  "Register"), timer)
  /\ last' = Issue(last, 0, "STARTING")
  /\ sent' = Count("STARTING")
  /\ UNCHANGED <<answer, ticker, quit, notified, signals, faults, exited, nLoops,
                 upOk, sinceHB, hbEver>>

\* ---- Register -------------------------------------------------------------
\* Variants of RegisterNext: a bad status taken for success; a transport
\* error that makes Register give up.
RegisterNextLenient(o) == IF o = "err" THEN "sleepE" ELSE "callUp"

RegisterNextGiveUp(o) ==
  CASE o = "err" -> "ret"
    [] o = "ok" -> "callUp"
    [] OTHER -> "sleepS"

\* What Register does with the answer to its POST.
RegisterNext(o) ==
  CASE o = "err" -> "sleepE"
    [] o = "ok" -> "callUp"
    [] OTHER -> "sleepS"

RegisterTakes(c, o) ==
  /\ ~exited
  /\ At(c, "Register", "await")
  /\ CanAnswer(o)
  /\ faults' = Charge(o)
  /\ IF RegisterNext(o) = "callUp"
       THEN /\ Run(c, Enter(c, [Failed(Top(c), o) EXCEPT !.pc = "inUp",
                                                         !.ups = @ + 1], "Up"),
                   timer)
            /\ last' = Issue(Answer(c, o), c, "UP")
            /\ sent' = Count("UP")
       ELSE /\ Run(c, Put(c, After(Failed(Top(c), o), RegisterNext(o))),
                   Alarm(c, RegisterNext(o)))
            /\ last' = Answer(c, o)
            /\ sent' = sent
  /\ UNCHANGED <<ticker, quit, notified, signals, exited, nLoops, upOk,
                 sinceHB, hbEver>>

RegisterResp(c, o) == RegisterTakes(c, o) /\ UNCHANGED answer

RegisterRetry(c) ==
  /\ ~exited
  /\ At(c, "Register", "sleepE") \/ At(c, "Register", "sleepS")
  /\ Woken(c)
  /\ Run(c, Enter(c, [Slept(c, Top(c)) EXCEPT !.pc = "inRegister",
                                              !.regCalls = @ + 1], "Register"),
         timer)
  /\ last' = Issue(last, c, "STARTING")
  /\ sent' = Count("STARTING")
  /\ UNCHANGED <<answer, ticker, quit, notified, signals, faults, exited, nLoops,
                 upOk, sinceHB, hbEver>>

\* ---- Up and StartHeartbeatDaemon -----------------------------------------
\* Variant of UpNext: a bad status taken for success.
UpNextLenient(o) == IF o = "err" THEN "sleepE" ELSE "daemon"

\* Variant of UpNext: a transport error makes Up give up.
UpNextGiveUp(o) ==
  CASE o = "err" -> "ret"
    [] o = "ok" -> "daemon"
    [] OTHER -> "sleepS"

\* What Up does with the answer to its POST.
UpNext(o) ==
  CASE o = "err" -> "sleepE"
    [] o = "ok" -> "daemon"
    [] OTHER -> "sleepS"

\* StartHeartbeatDaemon: a new ticker, signal.Notify on the package-level
\* quit channel, a new goroutine running the select loop.
NewTicker == [left |-> HEARTBEAT_SECONDS, pending |-> FALSE, stopped |-> FALSE]

UpTakes(c, o) ==
  /\ ~exited
  /\ At(c, "Up", "await")
  /\ CanAnswer(o)
  /\ faults' = Charge(o)
  /\ last' = Answer(c, o)
  /\ upOk' = IF Success(o) THEN upOk + 1 ELSE upOk
  /\ IF UpNext(o) = "daemon"
       THEN /\ nLoops < MaxFaults + 1
            /\ nLoops' = nLoops + 1
            /\ ticker' = [ticker EXCEPT ![nLoops + 1] = NewTicker]
            /\ notified' = TRUE
            /\ Run(c, [Put(c, [Failed(Top(c), o) EXCEPT !.pc = "ret",
                                                        !.daemons = @ + 1])
                         EXCEPT ![nLoops + 1] = <<Frame("loop", "select")>>],
                   timer)
       ELSE /\ Run(c, Put(c, After(Failed(Top(c), o), UpNext(o))),
                   Alarm(c, UpNext(o)))
            /\ UNCHANGED <<nLoops, ticker, notified>>
  /\ UNCHANGED <<quit, signals, exited, sent, sinceHB, hbEver>>

UpResp(c, o) == UpTakes(c, o) /\ UNCHANGED answer

\* Register() calls that follow the sleep of a failed Up: one after a
\* transport error, two after a bad status.
UpRegisterCalls(pc) == IF pc = "sleepS" THEN 2 ELSE 1

UpRetry(c) ==
  /\ ~exited
  /\ At(c, "Up", "sleepE") \/ At(c, "Up", "sleepS")
  /\ Woken(c)
  /\ Run(c, Enter(c, [Slept(c, Top(c)) EXCEPT
                        !.pc = "inRegister", !.regCalls = @ + 1,
                        !.todo = UpRegisterCalls(Top(c).pc) - 1], "Register"),
         timer)
  /\ last' = Issue(last, c, "STARTING")
  /\ sent' = Count("STARTING")
  /\ UNCHANGED <<answer, ticker, quit, notified, signals, faults, exited, nLoops,
                 upOk, sinceHB, hbEver>>

\* The second r.Register() of Up's bad-status branch.
UpRegisterAgain(c) ==
  /\ ~exited
  /\ At(c, "Up", "again")
  /\ Run(c, Enter(c, [Top(c) EXCEPT !.pc = "inRegister", !.regCalls = @ + 1,
                                    !.todo = @ - 1], "Register"), timer)
  /\ last' = Issue(last, c, "STARTING")
  /\ sent' = Count("STARTING")
  /\ UNCHANGED <<answer, ticker, quit, notified, signals, faults, exited, nLoops,
                 upOk, sinceHB, hbEver>>

\* ---- the heartbeat goroutine ----------------------------------------------
\* case <-ticker.C: r.SendHeartbeat(), which blocks in putRequest.
LoopTick(l) ==
  /\ ~exited
  /\ At(l, "loop", "select")
  /\ ticker[l].pending
  /\ ticker' = [ticker EXCEPT ![l].pending = FALSE]
  /\ Run(l, Enter(l, [Top(l) EXCEPT !.pc = "inHeartbeat"], "SendHeartbeat"),
         timer)
  /\ last' = Issue(last, l, "PUT")
  /\ sinceHB' = 0
  /\ hbEver' = TRUE
  /\ UNCHANGED <<answer, quit, notified, signals, faults, exited, nLoops, sent, upOk>>

\* Variant of HeartbeatNext: a bad status is logged and nothing else.
HeartbeatNextSwallow(o) == IF o = "err" THEN "sleepE" ELSE "ret"

\* What SendHeartbeat does with the answer to its PUT.
HeartbeatNext(o) ==
  CASE o = "err" -> "sleepE"
    [] o = "ok" -> "ret"
    [] OTHER -> "sleepS"

HeartbeatTakes(l, o) ==
  /\ ~exited
  /\ At(l, "SendHeartbeat", "await")
  /\ CanAnswer(o)
  /\ faults' = Charge(o)
  /\ last' = Answer(l, o)
  /\ Run(l, Put(l, After(Failed(Top(l), o), HeartbeatNext(o))),
         Alarm(l, HeartbeatNext(o)))
  /\ UNCHANGED <<ticker, quit, notified, signals, exited, nLoops, sent, upOk,
                 sinceHB, hbEver>>

HeartbeatResp(l, o) == HeartbeatTakes(l, o) /\ UNCHANGED answer

HeartbeatRetry(l) ==
  /\ ~exited
  /\ At(l, "SendHeartbeat", "sleepE") \/ At(l, "SendHeartbeat", "sleepS")
  /\ Woken(l)
  /\ Run(l, Enter(l, [Slept(l, Top(l)) EXCEPT !.pc = "inRegister",
                                              !.regCalls = @ + 1], "Register"),
         timer)
  /\ last' = Issue(last, l, "STARTING")
  /\ sent' = Count("STARTING")
  /\ UNCHANGED <<answer, ticker, quit, notified, signals, faults, exited, nLoops,
                 upOk, sinceHB, hbEver>>

\* case <-quit: ticker.Stop(), then r.Down(), which blocks in postRequest.
\* Variant of StopTicker: the ticker keeps running.
StopTickerNot(t) == t

StopTicker(t) == [t EXCEPT !.stopped = TRUE]

LoopQuit(l) ==
  /\ ~exited
  /\ At(l, "loop", "select")
  /\ quit > 0
  /\ quit' = quit - 1
  /\ ticker' = [ticker EXCEPT ![l] = StopTicker(@)]
  /\ Run(l, Enter(l, [Top(l) EXCEPT !.pc = "inDown", !.downCalls = @ + 1],
                  "Down"), timer)
  /\ last' = Issue(last, l, "DOWN")
  /\ sent' = Count("DOWN")
  /\ UNCHANGED <<answer, notified, signals, faults, exited, nLoops, upOk, sinceHB,
                 hbEver>>

\* time.Sleep(3 * time.Second) is over: os.Exit(0).
LoopExit(l) ==
  /\ ~exited
  /\ At(l, "loop", "grace")
  /\ Woken(l)
  /\ exited' = TRUE
  /\ Run(l, Put(l, [Slept(l, Top(l)) EXCEPT !.pc = "exit"]), timer)
  /\ UNCHANGED <<answer, ticker, quit, notified, signals, faults, nLoops, last, sent,
                 upOk, sinceHB, hbEver>>

\* ---- Down -----------------------------------------------------------------
\* Variant of DownNext: a failed DOWN POST is retried like the others.
DownNextRetry(o) == IF Success(o) THEN "ret" ELSE "sleepS"

\* Down logs the outcome and returns, whatever it is.
DownNext(o) == "ret"

DownTakes(c, o) ==
  /\ ~exited
  /\ At(c, "Down", "await")
  /\ CanAnswer(o)
  /\ faults' = Charge(o)
  /\ last' = Answer(c, o)
  /\ Run(c, Put(c, After(Failed(Top(c), o), DownNext(o))),
         Alarm(c, DownNext(o)))
  /\ UNCHANGED <<ticker, quit, notified, signals, exited, nLoops, sent, upOk,
                 sinceHB, hbEver>>

DownResp(c, o) == DownTakes(c, o) /\ UNCHANGED answer

\* ---- environment ----------------------------------------------------------
\* An interrupt reaches the process: the runtime does a non-blocking send on
\* the channel registered with signal.Notify.
Signal ==
  /\ ~exited
  /\ notified
  /\ signals < MaxSignals
  /\ signals' = signals + 1
  /\ quit' = IF quit < QUIT_CAPACITY THEN quit + 1 ELSE quit
  /\ returned' = NoReturn
  /\ UNCHANGED <<answer, stack, timer, ticker, faults, exited, nLoops, last, sent,
                 upOk, notified, sinceHB, hbEver>>

\* Time passes up to the next instant at which a sleep ends or a ticker
\* fires.  A running ticker that reaches its period puts a tick in its
\* channel (capacity 1: a tick nobody has taken yet is not doubled).
Min(S) == CHOOSE x \in S : \A y \in S : x <= y

Running(t) == t.left > 0 /\ ~t.stopped

Deadlines ==
  {timer[c] : c \in {x \in Ctx : timer[x] > 0}} \cup
  {ticker[c].left : c \in {x \in Ctx : Running(ticker[x])}}

\* Variant of TickTicker: the ticker fires once and is not re-armed.
TickTickerOnce(t, d) ==
  IF ~Running(t) THEN t
  ELSE IF t.left = d THEN [t EXCEPT !.left = 0, !.pending = TRUE]
  ELSE [t EXCEPT !.left = @ - d]

TickTicker(t, d) ==
  IF ~Running(t) THEN t
  ELSE IF t.left = d THEN [t EXCEPT !.left = HEARTBEAT_SECONDS, !.pending = TRUE]
  ELSE [t EXCEPT !.left = @ - d]

\* Local computation takes no time: only a request in flight and a sleep do.
Busy(c) ==
  /\ Depth(c) > 0
  /\ \/ Top(c).pc \in {"start", "again"}
     \/ Top(c).pc = "serve" /\ Top(c).todo > 0
     \/ Top(c).pc \in {"sleepE", "sleepS", "sleepMore", "grace"} /\ Woken(c)
     \/ Top(c).pc = "select" /\ (ticker[c].pending \/ quit > 0)

Tick ==
  /\ ~exited
  /\ Deadlines # {}
  /\ \A c \in Ctx : ~Busy(c)
  /\ LET d == Min(Deadlines)
     IN /\ timer' = [c \in Ctx |-> IF timer[c] > 0 THEN timer[c] - d ELSE 0]
        /\ ticker' = [c \in Ctx |-> TickTicker(ticker[c], d)]
        /\ sinceHB' = IF hbEver /\ sinceHB + d < HEARTBEAT_SECONDS
                        THEN sinceHB + d
                        ELSE IF hbEver THEN HEARTBEAT_SECONDS ELSE sinceHB
  /\ returned' = NoReturn
  /\ UNCHANGED <<answer, stack, quit, notified, signals, faults, exited, nLoops, last,
                 sent, upOk, hbEver>>

\* The steps of the client and of time.
Client ==
  \/ CallRegister
  \/ \E c \in Ctx, o \in Outcomes : RegisterResp(c, o)
  \/ \E c \in Ctx : RegisterRetry(c)
  \/ \E c \in Ctx, o \in Outcomes : UpResp(c, o)
  \/ \E c \in Ctx : UpRetry(c)
  \/ \E c \in Ctx : UpRegisterAgain(c)
  \/ \E l \in Loops : LoopTick(l)
  \/ \E l \in Loops, o \in Outcomes : HeartbeatResp(l, o)
  \/ \E l \in Loops : HeartbeatRetry(l)
  \/ Tick

Next ==
  \/ Client
  \/ \E l \in Loops : LoopQuit(l)
  \/ \E l \in Loops : LoopExit(l)
  \/ \E c \in Ctx, o \in Outcomes : DownResp(c, o)
  \/ Signal

Spec == Init /\ [][Next]_vars

\* The steps of context c.
Step(c) ==
  \/ c = 0 /\ CallRegister
  \/ \E o \in Outcomes : RegisterResp(c, o)
  \/ RegisterRetry(c)
  \/ \E o \in Outcomes : UpResp(c, o)
  \/ UpRetry(c)
  \/ UpRegisterAgain(c)
  \/ c \in Loops /\ LoopTick(c)
  \/ \E o \in Outcomes : c \in Loops /\ HeartbeatResp(c, o)
  \/ c \in Loops /\ HeartbeatRetry(c)
  \/ c \in Loops /\ LoopQuit(c)
  \/ c \in Loops /\ LoopExit(c)
  \/ \E o \in Outcomes : DownResp(c, o)

\* Time passes, every goroutine that can run does, every request is answered.
FairSpec == Spec /\ WF_vars(Tick) /\ \A c \in Ctx : WF_vars(Step(c))

\* The same without any interrupt arriving.
FairQuiet ==
  Init /\ [][Client]_vars /\ WF_vars(Tick) /\ \A c \in Ctx : WF_vars(Step(c))

\* ---- an embedding program that also calls Down() itself -------------------
\* Register() has returned and the program goes on to call Down() MaxDowns
\* times in a row.
InitAPI == InitWith(MaxDowns)

CallerDown ==
  /\ ~exited
  /\ At(0, "main", "serve")
  /\ Top(0).todo > 0
  /\ Run(0, Enter(0, [Top(0) EXCEPT !.pc = "inDown", !.downCalls = @ + 1,
                                    !.todo = @ - 1], "Down"), timer)
  /\ last' = Issue(last, 0, "DOWN")
  /\ sent' = Count("DOWN")
  /\ UNCHANGED <<answer, ticker, quit, notified, signals, faults, exited, nLoops,
                 upOk, sinceHB, hbEver>>

\* No interrupt arrives while this program runs.
NextAPI ==
  \/ Client
  \/ CallerDown
  \/ \E o \in Outcomes : DownResp(0, o)

SpecAPI == InitAPI /\ [][NextAPI]_vars

\* ---- json.Marshal fails ----------------------------------------------------
\* Register, Up and Down encode their descriptor before anything else; when
\* json.Marshal returns an error they log it and return.
\* Variant of MarshalFailed: the error is logged and the request is sent all
\* the same.
MarshalFailedGoOn == "await"

MarshalFailed == "ret"

\* A call of fn from the frame on top of context c's stack, left as f, in
\* which json.Marshal fails.
Aborted(c, f, fn) ==
  [stack EXCEPT ![c] = Append(SetLast(@, f), Frame(fn, MarshalFailed))]

\* The places where context c is about to call Register() or Down(), with
\* the frame the caller is left in.
CallSite(c) ==
  CASE c = 0 /\ At(0, "main", "start") -> "Register"
    [] c = 0 /\ At(0, "main", "serve") /\ Top(0).todo > 0 -> "Down"
    [] Depth(c) > 0 /\ Top(c).fn \in {"Register", "Up", "SendHeartbeat"}
         /\ Top(c).pc \in {"sleepE", "sleepS"} /\ Woken(c) -> "Register"
    [] At(c, "Up", "again") -> "Register"
    [] OTHER -> "none"

CallerFrame(c) ==
  CASE Top(c).fn = "main" /\ Top(c).pc = "start" ->
         [Top(c) EXCEPT !.pc = "inRegister", !.regCalls = @ + 1]
    [] Top(c).fn = "main" ->
         [Top(c) EXCEPT !.pc = "inDown", !.downCalls = @ + 1, !.todo = @ - 1]
    [] Top(c).fn = "Up" /\ Top(c).pc = "again" ->
         [Top(c) EXCEPT !.pc = "inRegister", !.regCalls = @ + 1, !.todo = @ - 1]
    [] Top(c).fn = "Up" ->
         [Slept(c, Top(c)) EXCEPT !.pc = "inRegister", !.regCalls = @ + 1,
                                  !.todo = UpRegisterCalls(Top(c).pc) - 1]
    [] OTHER ->
         [Slept(c, Top(c)) EXCEPT !.pc = "inRegister", !.regCalls = @ + 1]

\* Register() or Down() is called and cannot encode its descriptor.
CallAborts(c) ==
  /\ ~exited
  /\ CallSite(c) # "none"
  /\ Run(c, Aborted(c, CallerFrame(c), CallSite(c)), timer)
  /\ UNCHANGED <<answer, ticker, quit, notified, signals, faults, exited,
                 nLoops, last, sent, upOk, sinceHB, hbEver>>

\* Register's POST succeeds and the Up() it calls cannot encode its
\* descriptor.
RegisterUpAborts(c) ==
  /\ ~exited
  /\ At(c, "Register", "await")
  /\ Run(c, Aborted(c, [Top(c) EXCEPT !.pc = "inUp", !.ups = @ + 1], "Up"),
         timer)
  /\ last' = Answer(c, "ok")
  /\ UNCHANGED <<answer, ticker, quit, notified, signals, faults, exited,
                 nLoops, sent, upOk, sinceHB, hbEver>>

\* The program that calls Register() and then Down(), json.Marshal failing
\* at will, no interrupt arriving.
NextMarshal ==
  \/ NextAPI
  \/ \E c \in Ctx : CallAborts(c)
  \/ \E c \in Ctx : RegisterUpAborts(c)

SpecMarshal == InitAPI /\ [][NextMarshal]_vars

\* ---- a registry that is down for good ------------------------------------
\* Once MaxFaults failures have been counted the registry may go on failing
\* every STARTING POST.  Register() sleeps RETRY_SECONDS and calls
\* Register() again as its last statement, so the new call is kept in the
\* frame of the old one and these attempts are not counted: the stack and
\* the counters stay bounded while the retries go on for ever.
OutageFail(c) ==
  /\ ~exited
  /\ At(c, "Register", "await")
  /\ faults = MaxFaults
  /\ stack' = Put(c, Nap(Top(c), "sleepMore", RETRY_SECONDS))
  /\ timer' = [timer EXCEPT ![c] = RETRY_SECONDS]
  /\ last' = [last EXCEPT ![c].res = "fail"]
  /\ returned' = NoReturn
  /\ UNCHANGED <<answer, ticker, quit, notified, signals, faults, exited,
                 nLoops, sent, upOk, sinceHB, hbEver>>

OutageRetry(c) ==
  /\ ~exited
  /\ At(c, "Register", "sleepMore")
  /\ Woken(c)
  /\ stack' = Put(c, [Top(c) EXCEPT !.pc = "await"])
  /\ last' = Issue(last, c, "STARTING")
  /\ returned' = NoReturn
  /\ UNCHANGED <<answer, timer, ticker, quit, notified, signals, faults,
                 exited, nLoops, sent, upOk, sinceHB, hbEver>>

NextOutage ==
  \/ Next
  \/ \E c \in Ctx : OutageFail(c)
  \/ \E c \in Ctx : OutageRetry(c)

StepOutage(c) == Step(c) \/ OutageFail(c) \/ OutageRetry(c)

\* Time passes, every goroutine that can run does, every request gets an
\* answer, and a select that finds the quit channel ready again and again
\* takes it in the end (select picks among its ready cases at random).
FairOutage ==
  /\ Init /\ [][NextOutage]_vars
  /\ WF_vars(Tick)
  /\ \A c \in Ctx : WF_vars(StepOutage(c))
  /\ \A l \in Loops : SF_vars(LoopQuit(l))

\* ---- the client without RETRY_SECONDS (the first package eureka) ----------
\* postRequest and putRequest return (nil, err) on a transport error, and
\* every caller reads resp.StatusCode without looking at err: a nil pointer
\* dereference, which panics and ends the process.  A bad status is logged
\* and the function returns.  Each StartHeartbeatDaemon makes its own quit
\* channel, and only the newest goroutine is ever in its select loop, so
\* quit stands for the newest channel, empty when made.
FirstNext(o, onOk) ==
  CASE o = "err" -> "panic"
    [] o = "ok" -> onOk
    [] OTHER -> "ret"

FirstDaemon(c, f) ==
  /\ nLoops < MaxFaults + 1
  /\ nLoops' = nLoops + 1
  /\ ticker' = [ticker EXCEPT ![nLoops + 1] = NewTicker]
  /\ notified' = TRUE
  /\ quit' = 0
  /\ Run(c, [Put(c, [f EXCEPT !.pc = "ret", !.daemons = @ + 1])
               EXCEPT ![nLoops + 1] = <<Frame("loop", "select")>>], timer)

FirstRegisterResp(c, o) ==
  /\ ~exited
  /\ At(c, "Register", "await")
  /\ CanAnswer(o)
  /\ faults' = Charge(o)
  /\ exited' = (FirstNext(o, "callUp") = "panic")
  /\ IF FirstNext(o, "callUp") = "callUp"
       THEN /\ Run(c, Enter(c, [Top(c) EXCEPT !.pc = "inUp", !.ups = @ + 1],
                            "Up"), timer)
            /\ last' = Issue(Answer(c, o), c, "UP")
            /\ sent' = Count("UP")
       ELSE /\ Run(c, Put(c, [Failed(Top(c), o) EXCEPT
                                !.pc = FirstNext(o, "callUp")]), timer)
            /\ last' = Answer(c, o)
            /\ sent' = sent
  /\ UNCHANGED <<answer, ticker, quit, notified, signals, nLoops, upOk,
                 sinceHB, hbEver>>

FirstUpResp(c, o) ==
  /\ ~exited
  /\ At(c, "Up", "await")
  /\ CanAnswer(o)
  /\ faults' = Charge(o)
  /\ exited' = (FirstNext(o, "daemon") = "panic")
  /\ last' = Answer(c, o)
  /\ upOk' = IF Success(o) THEN upOk + 1 ELSE upOk
  /\ IF FirstNext(o, "daemon") = "daemon"
       THEN FirstDaemon(c, Top(c))
       ELSE /\ Run(c, Put(c, [Failed(Top(c), o) EXCEPT
                                !.pc = FirstNext(o, "daemon")]), timer)
            /\ UNCHANGED <<nLoops, ticker, notified, quit>>
  /\ UNCHANGED <<answer, signals, sent, sinceHB, hbEver>>

FirstHeartbeatResp(l, o) ==
  /\ ~exited
  /\ At(l, "SendHeartbeat", "await")
  /\ CanAnswer(o)
  /\ faults' = Charge(o)
  /\ exited' = (FirstNext(o, "ret") = "panic")
  /\ last' = Answer(l, o)
  /\ Run(l, Put(l, [Failed(Top(l), o) EXCEPT !.pc = FirstNext(o, "ret")]),
         timer)
  /\ UNCHANGED <<answer, ticker, quit, notified, signals, nLoops, sent, upOk,
                 sinceHB, hbEver>>

\* Down starts a heartbeat daemon when its POST succeeds.
FirstDownResp(c, o) ==
  /\ ~exited
  /\ At(c, "Down", "await")
  /\ CanAnswer(o)
  /\ faults' = Charge(o)
  /\ exited' = (FirstNext(o, "daemon") = "panic")
  /\ last' = Answer(c, o)
  /\ IF FirstNext(o, "daemon") = "daemon"
       THEN FirstDaemon(c, Top(c))
       ELSE /\ Run(c, Put(c, [Failed(Top(c), o) EXCEPT
                                !.pc = FirstNext(o, "daemon")]), timer)
            /\ UNCHANGED <<nLoops, ticker, notified, quit>>
  /\ UNCHANGED <<answer, signals, sent, upOk, sinceHB, hbEver>>

NextFirst ==
  \/ CallRegister
  \/ \E c \in Ctx, o \in Outcomes : FirstRegisterResp(c, o)
  \/ \E c \in Ctx, o \in Outcomes : FirstUpResp(c, o)
  \/ \E l \in Loops : LoopTick(l)
  \/ \E l \in Loops, o \in Outcomes : FirstHeartbeatResp(l, o)
  \/ \E l \in Loops : LoopQuit(l)
  \/ \E c \in Ctx, o \in Outcomes : FirstDownResp(c, o)
  \/ \E l \in Loops : LoopExit(l)
  \/ Signal
  \/ Tick

SpecFirst == Init /\ [][NextFirst]_vars

\* ---- registry answers with their status codes -----------------------------
\* http.DefaultClient.Do gives a transport error (and no response) or a
\* response with a status code.
StatusCodes == {200, 201, 204, 302, 404, 503}
Responses ==
  {[err |-> TRUE, code |-> 0]} \cup {[err |-> FALSE, code |-> s] : s \in StatusCodes}

\* Variant of HeartbeatStatusOK: every 2xx status counts as success.
HeartbeatStatusAny2xx(s) == s >= 200 /\ s < 300

\* resp.StatusCode == 204 || resp.StatusCode == 200, as Register, Up and
\* SendHeartbeat each test it.
RegisterStatusOK(s) == s = 204 \/ s = 200
UpStatusOK(s) == s = 204 \/ s = 200
HeartbeatStatusOK(s) == s = 204 \/ s = 200

\* The branch a function takes on response r: err != nil is tested first.
Outcome(r, ok) == IF r.err THEN "err" ELSE IF ok THEN "ok" ELSE "status"

RegisterAnswer(c, r) ==
  /\ RegisterTakes(c, Outcome(r, RegisterStatusOK(r.code)))
  /\ answer' = r

UpAnswer(c, r) ==
  /\ UpTakes(c, Outcome(r, UpStatusOK(r.code)))
  /\ answer' = r

HeartbeatAnswer(l, r) ==
  /\ HeartbeatTakes(l, Outcome(r, HeartbeatStatusOK(r.code)))
  /\ answer' = r

\* The client with the status code of every answer observed, no interrupt
\* arriving.
NextCodes ==
  \/ CallRegister
  \/ \E c \in Ctx, r \in Responses : RegisterAnswer(c, r)
  \/ \E c \in Ctx : RegisterRetry(c)
  \/ \E c \in Ctx, r \in Responses : UpAnswer(c, r)
  \/ \E c \in Ctx : UpRetry(c)
  \/ \E c \in Ctx : UpRegisterAgain(c)
  \/ \E l \in Loops : LoopTick(l)
  \/ \E l \in Loops, r \in Responses : HeartbeatAnswer(l, r)
  \/ \E l \in Loops : HeartbeatRetry(l)
  \/ Tick

SpecCodes == Init /\ [][NextCodes]_vars

TypeOK ==
  /\ nLoops \in 0 .. (MaxFaults + 1)
  /\ faults \in 0 .. MaxFaults
  /\ quit \in 0 .. QUIT_CAPACITY

\* ---- notions used by the properties ---------------------------------------
ReturnedFrames == {returned.frames[i] : i \in 1 .. Len(returned.frames)}
AllFrames ==
  UNION {{stack[c][i] : i \in 1 .. Len(stack[c])} : c \in Ctx} \cup ReturnedFrames
Sleeping(f) == f.pc \in {"sleepE", "sleepS"}
Request(kind, res) == [kind |-> kind, res |-> res]
\* Context l begins a SendHeartbeat() in this step.
HBStart(l) ==
  /\ At(l, "loop", "select")
  /\ Last(stack'[l]).fn = "SendHeartbeat"


\* ---- C1 -------------------------------------------------------------------
\* C1: a Register() call whose first N STARTING POSTs fail, whose next one
\* succeeds and whose UP POST succeeds has, when it returns, sent exactly
\* N + 1 STARTING POSTs, slept the retry interval exactly once after each
\* failure (N sleeps, N * RETRY_SECONDS in all) and invoked Up() exactly
\* once; and Up() is only ever invoked by the Register() frame whose own
\* POST succeeded.
C1_RegisterRetryCount ==
  /\ \A f \in ReturnedFrames :
       (f.fn = "Register" /\ ~f.upFailed) =>
         /\ f.posts = f.fails + 1
         /\ f.waits = f.fails
         /\ f.waited = f.fails * RETRY_SECONDS
         /\ f.ups = 1
  /\ \A f \in AllFrames :
       /\ (f.fn = "Register" /\ f.pc = "inUp") =>
            (f.posts = 1 /\ f.fails = 0 /\ f.ups = 1 /\ f.waits = 0)
       /\ (f.fn = "Register" /\ f.pc \in {"await", "sleepE", "sleepS", "inRegister"})
            => f.ups = 0

\* A Register() call returns after two failed attempts and a third that
\* succeeded, its UP POST having succeeded too.
C1_Witness ==
  \E f \in ReturnedFrames :
    f.fn = "Register" /\ ~f.upFailed /\ f.fails = 2 /\ f.posts = 3

\* ---- C2 -------------------------------------------------------------------
LoopFrame(l) == stack[l][1]
LoopPc(l) == IF Depth(l) > 0 THEN LoopFrame(l).pc ELSE "none"

ShutdownInv ==
  \A l \in Loops : Depth(l) > 0 =>
    LET f == LoopFrame(l) IN
      /\ f.pc \in {"select", "inHeartbeat"} =>
           (~ticker[l].stopped /\ f.downCalls = 0 /\ f.posts = 0)
      /\ f.pc \in {"inDown", "grace", "exit"} =>
           (ticker[l].stopped /\ f.downCalls = 1)
      /\ f.pc = "inDown" =>
           (f.posts = 0 /\ Depth(l) = 2 /\ Top(l).fn = "Down" /\ Top(l).posts = 1)
      /\ f.pc = "grace" => (f.posts = 1 /\ f.waits = 0 /\ f.nap = GRACE_SECONDS)
      /\ f.pc = "exit" =>
           (f.posts = 1 /\ f.waits = 1 /\ f.waited = GRACE_SECONDS /\ exited)
      /\ last[l].kind = "DOWN" => ticker[l].stopped

ShutdownStep ==
  /\ \A l \in Loops :
       /\ LoopPc(l) = "inDown" => LoopPc(l)' \in {"inDown", "grace"}
       /\ LoopPc(l) = "grace" => LoopPc(l)' \in {"grace", "exit"}
       /\ LoopPc(l) = "exit" => LoopPc(l)' = "exit"
       /\ LoopPc(l)' = "inDown" => LoopPc(l) \in {"select", "inDown"}
  /\ exited' => \E l \in Loops : LoopPc(l)' = "exit"

\* C2: a heartbeat loop that has taken the signal stops its ticker, calls
\* Down() once (one DOWN POST), sleeps the full grace period and only then
\* exits the process, in this order and each once: no DOWN POST of a loop
\* whose ticker still runs, no exit without the grace sleep behind it.
C2_ShutdownOrder == [](ShutdownInv) /\ [][ShutdownStep]_vars

\* A loop has gone through the whole sequence and the process has exited.
C2_Witness ==
  \E l \in Loops :
    exited /\ LoopPc(l) = "exit" /\ LoopFrame(l).posts = 1 /\ ticker[l].stopped

\* ---- C3 -------------------------------------------------------------------
\* C3: once an interrupt has been delivered to the process, no
\* SendHeartbeat() begins any more.
C3_NoHeartbeatAfterSignal ==
  [][signals > 0 => \A l \in Loops : ~HBStart(l)]_vars

\* ---- C4 -------------------------------------------------------------------
\* C4: a SendHeartbeat() begins at least HEARTBEAT_SECONDS after the
\* previous one began.
C4_HeartbeatSpacing ==
  [][\A l \in Loops : HBStart(l) => (~hbEver \/ sinceHB >= HEARTBEAT_SECONDS)]_vars

\* ---- C5 -------------------------------------------------------------------
HeartbeatFrames == {f \in AllFrames : f.fn = "SendHeartbeat"}

HeartbeatRouting ==
  \A f \in HeartbeatFrames :
    /\ f.posts = 1
    /\ f.pc \in {"await", "sleepE", "sleepS", "inRegister", "ret"}
    /\ f.pc = "await" => (f.fails = 0 /\ f.waits = 0 /\ f.regCalls = 0)
    /\ Sleeping(f) =>
         (f.fails = 1 /\ f.waits = 0 /\ f.regCalls = 0 /\ f.nap = RETRY_SECONDS)
    /\ f.pc = "inRegister" =>
         (f.fails = 1 /\ f.waits = 1 /\ f.waited = RETRY_SECONDS /\ f.regCalls = 1)
    /\ f.pc = "ret" =>
         \/ f.fails = 0 /\ f.waits = 0 /\ f.regCalls = 0
         \/ f.fails = 1 /\ f.waits = 1 /\ f.waited = RETRY_SECONDS /\ f.regCalls = 1

AfterFailedPut ==
  \A c \in Ctx :
    (last[c] = Request("PUT", "fail") /\ last'[c] # last[c]) =>
      last'[c] = Request("STARTING", "pending")

\* C5: a SendHeartbeat() whose PUT failed sleeps the retry interval once and
\* then calls Register() once: the next request of its goroutine is a
\* STARTING POST, it sends no second PUT itself, and it does not return
\* without having called Register().
C5_HeartbeatFailureRoutes == [](HeartbeatRouting) /\ [][AfterFailedPut]_vars

\* A SendHeartbeat() whose PUT failed returns, Register() behind it.
C5_Witness ==
  \E f \in ReturnedFrames :
    f.fn = "SendHeartbeat" /\ f.fails = 1 /\ f.regCalls = 1

\* ---- C6 -------------------------------------------------------------------
UpFrames == {f \in AllFrames : f.fn = "Up"}

UpRouting ==
  \A f \in UpFrames :
    /\ f.posts = 1
    /\ f.pc = "await" => (f.fails = 0 /\ f.regCalls = 0 /\ f.daemons = 0)
    /\ Sleeping(f) =>
         (f.fails = 1 /\ f.waits = 0 /\ f.regCalls = 0 /\ f.daemons = 0
          /\ f.nap = RETRY_SECONDS)
    /\ f.pc \in {"inRegister", "again"} =>
         (f.fails = 1 /\ f.waits = 1 /\ f.waited = RETRY_SECONDS
          /\ f.regCalls >= 1 /\ f.daemons = 0)
    /\ f.pc = "ret" =>
         \/ f.fails = 0 /\ f.waits = 0 /\ f.regCalls = 0 /\ f.daemons = 1
         \/ f.fails = 1 /\ f.waits = 1 /\ f.waited = RETRY_SECONDS
            /\ f.regCalls >= 1 /\ f.daemons = 0

AfterFailedUp ==
  /\ \A c \in Ctx :
       (last[c] = Request("UP", "fail") /\ last'[c] # last[c]) =>
         last'[c] = Request("STARTING", "pending")
  /\ nLoops' # nLoops =>
       \E c \in Ctx : /\ last[c] = Request("UP", "pending")
                      /\ last'[c] = Request("UP", "ok")

\* C6: an Up() whose POST failed sleeps the retry interval once and then
\* calls Register(): the next request of its context is a STARTING POST, it
\* sends no second UP POST itself and it does not start a heartbeat loop (a
\* loop starts only in the step that answers an UP POST with success).
C6_UpFailureRoutes == [](UpRouting) /\ [][AfterFailedUp]_vars

\* An Up() whose POST failed returns, Register() behind it.
C6_Witness ==
  \E f \in ReturnedFrames : f.fn = "Up" /\ f.fails = 1 /\ f.regCalls >= 1

\* ---- C7 -------------------------------------------------------------------
DownFrames == {f \in AllFrames : f.fn = "Down"}

RECURSIVE SumDownCalls(_)
SumDownCalls(S) ==
  IF S = {} THEN 0
  ELSE LET c == CHOOSE x \in S : TRUE
       IN (IF Depth(c) > 0 THEN stack[c][1].downCalls ELSE 0)
          + SumDownCalls(S \ {c})

DownBestEffort ==
  /\ \A f \in DownFrames :
       /\ f.pc \in {"await", "ret"}
       /\ f.posts = 1 /\ f.waits = 0 /\ f.regCalls = 0 /\ f.ups = 0
       /\ f.daemons = 0
  /\ \A c \in Ctx : \A i \in 1 .. (Depth(c) - 1) : stack[c][i].fn # "Down"
  /\ sent["DOWN"] = SumDownCalls(Ctx)

DownAnswered ==
  \A c \in Ctx :
    (At(c, "Down", "await") /\ stack'[c] # stack[c]) =>
      /\ Len(stack'[c]) = Depth(c) - 1
      /\ returned'.ctx = c
      /\ Len(returned'.frames) = 1
      /\ returned'.frames[1].fn = "Down"
      /\ timer'[c] = 0 \/ LoopPc(c)' = "grace"
      /\ sent' = sent /\ nLoops' = nLoops /\ exited' = exited
      /\ last'[c].kind = "DOWN" /\ last'[c].res \in {"ok", "fail"}

\* C7: every Down() sends one DOWN POST and returns when it is answered,
\* whatever the answer: it does not sleep, does not call Register() or Up(),
\* starts no heartbeat loop and does not end the process; the DOWN POSTs
\* sent are as many as the Down() calls made.
C7_DownBestEffort == [](DownBestEffort) /\ [][DownAnswered]_vars

\* The program has called Down() twice; both calls returned, the second
\* after a failed POST, and two DOWN POSTs were sent.
C7_Witness ==
  /\ At(0, "main", "serve")
  /\ Top(0).downCalls = 2
  /\ sent["DOWN"] = 2
  /\ last[0] = Request("DOWN", "fail")

\* ---- C8 -------------------------------------------------------------------
HappySoFar == faults = 0

HappyCounts ==
  HappySoFar =>
    /\ sent["STARTING"] <= 1 /\ sent["UP"] <= 1 /\ nLoops <= 1
    /\ nLoops = upOk
    /\ At(0, "main", "serve") =>
         /\ sent["STARTING"] = 1 /\ sent["UP"] = 1 /\ nLoops = 1
         /\ Depth(1) > 0
    /\ \A c \in Ctx : c > 1 => Depth(c) = 0

HeartbeatInFlight == \E l \in Loops : At(l, "SendHeartbeat", "await")

\* C8: while the registry has answered every request with success, one
\* STARTING POST and one UP POST are all the POSTs of registration, Register()
\* returns to the program with exactly one heartbeat loop running, and,
\* until an interrupt arrives, heartbeat PUTs keep being sent for ever.
C8_HappyPath ==
  /\ [](HappyCounts)
  /\ <>(~HappySoFar \/ At(0, "main", "serve"))
  /\ []<>(~HappySoFar \/ signals > 0 \/ HeartbeatInFlight)

\* Register() has returned to the program, no request has failed, no
\* interrupt has arrived, and the loop is in a heartbeat that is not its
\* first.
C8_Witness ==
  /\ HappySoFar /\ signals = 0
  /\ At(0, "main", "serve")
  /\ At(1, "SendHeartbeat", "await")
  /\ last[0] = Request("UP", "ok")
  /\ sinceHB = 0 /\ ticker[1].left = HEARTBEAT_SECONDS /\ ~ticker[1].pending

\* ---- C9 -------------------------------------------------------------------
NoneSucceeded == sent["UP"] = 0

BlockedInRegister ==
  NoneSucceeded =>
    /\ nLoops = 0 /\ ~notified
    /\ ~At(0, "main", "serve")
    /\ returned = NoReturn
    /\ Depth(0) = 1 + sent["STARTING"]
    /\ \A i \in 2 .. Depth(0) :
         /\ stack[0][i].fn = "Register"
         /\ stack[0][i].ups = 0
         /\ Sleeping(stack[0][i]) =>
              (stack[0][i].nap = RETRY_SECONDS /\ timer[0] <= RETRY_SECONDS)

\* C9: as long as every STARTING POST has failed, Register() has not
\* returned, Up() has not been invoked and no heartbeat loop exists; every
\* failed attempt is followed, after a sleep of RETRY_SECONDS whatever the
\* number of attempts before it, by another STARTING POST.
C9_RegisterBlocksAndRetries ==
  /\ [](BlockedInRegister)
  /\ \A n \in 1 .. MaxFaults :
       (NoneSucceeded /\ sent["STARTING"] = n /\ last[0] = Request("STARTING", "fail"))
         ~> (sent["STARTING"] = n + 1)

\* MaxFaults STARTING POSTs have failed, Register() is in its next attempt.
C9_Witness ==
  /\ NoneSucceeded
  /\ faults = MaxFaults
  /\ sent["STARTING"] = MaxFaults + 1
  /\ At(0, "Register", "await")
  /\ Depth(0) = MaxFaults + 2

\* ---- C10 ------------------------------------------------------------------
\* C10: when Register(), Up() or SendHeartbeat() returns, the last request
\* of its context was answered with success; for Register() and Up() that
\* request is an UP POST, for SendHeartbeat() the PUT itself or the UP POST
\* of the re-registration.
C10_ReturnImpliesSuccess ==
  /\ \A f \in ReturnedFrames :
       /\ f.fn \in {"Register", "Up", "SendHeartbeat"} =>
            last[returned.ctx].res = "ok"
       /\ f.fn \in {"Register", "Up"} => last[returned.ctx].kind = "UP"
       /\ f.fn = "SendHeartbeat" =>
            last[returned.ctx].kind = (IF f.fails = 0 THEN "PUT" ELSE "UP")
  /\ At(0, "main", "serve") => last[0] = Request("UP", "ok")

\* A Register() call that saw a failure returns.
C10_Witness ==
  \E f \in ReturnedFrames :
    f.fn = "Register" /\ (f.fails > 0 \/ f.upFailed) /\ returned.ctx = 0

\* ---- C11 ------------------------------------------------------------------
\* Context c's call of fn gets the answer to its request in this step.
Handles(c, fn) == At(c, fn, "await") /\ stack'[c] # stack[c]
GoodStatus == ~answer'.err /\ answer'.code \in {200, 204}
NowSleeping(c) ==
  /\ Len(stack'[c]) = Depth(c)
  /\ Sleeping(Last(stack'[c]))
  /\ timer'[c] = RETRY_SECONDS
  /\ sent' = sent /\ nLoops' = nLoops /\ last'[c].res = "fail"

RegisterSuccessPath(c) ==
  /\ Len(stack'[c]) = Depth(c) + 1
  /\ Last(stack'[c]).fn = "Up"
  /\ last'[c] = Request("UP", "pending")
  /\ timer'[c] = 0

UpSuccessPath(c) ==
  /\ nLoops' = nLoops + 1
  /\ Len(stack'[nLoops']) = 1 /\ stack'[nLoops'][1].fn = "loop"
  /\ returned'.ctx = c
  /\ Len(returned'.frames) >= 1 /\ returned'.frames[1].fn = "Up"
  /\ returned'.frames[1].waits = 0 /\ returned'.frames[1].regCalls = 0
  /\ sent' = sent

HeartbeatSuccessPath(l) ==
  /\ Len(returned'.frames) = 1 /\ returned'.frames[1].fn = "SendHeartbeat"
  /\ returned'.frames[1].waits = 0 /\ returned'.frames[1].regCalls = 0
  /\ Len(stack'[l]) = 1 /\ stack'[l][1].pc = "select"
  /\ timer'[l] = 0
  /\ sent' = sent /\ nLoops' = nLoops /\ last'[l] = Request("PUT", "ok")

StatusRouting ==
  \A c \in Ctx :
    /\ Handles(c, "Register") =>
         IF GoodStatus THEN RegisterSuccessPath(c) ELSE NowSleeping(c)
    /\ Handles(c, "Up") =>
         IF GoodStatus THEN UpSuccessPath(c) ELSE NowSleeping(c)
    /\ Handles(c, "SendHeartbeat") =>
         IF GoodStatus THEN HeartbeatSuccessPath(c) ELSE NowSleeping(c)

\* C11: whatever the registry answers, Register() goes on to Up(), Up()
\* starts the heartbeat loop and SendHeartbeat() returns at once exactly
\* when the answer carries status 200 or 204; on every other status (other
\* 2xx, 3xx, 4xx, 5xx) and on a transport error they sleep the retry
\* interval instead.
C11_SuccessIs200Or204 == [][StatusRouting]_vars

\* A heartbeat answered 201 has put SendHeartbeat() into its retry sleep, and
\* before that Register() and Up() went their success path on 200 and 204.
C11_Witness ==
  /\ answer = [err |-> FALSE, code |-> 201]
  /\ \E l \in Loops : At(l, "SendHeartbeat", "sleepS")
  /\ faults = 1 /\ upOk = 1

\* ---- C12 ------------------------------------------------------------------
Panicked == \E f \in AllFrames : f.pc = "panic"

\* C12: no answer of the registry ends the process: nothing panics, and the
\* process has ended only if a heartbeat goroutine has gone through its
\* shutdown sequence to os.Exit.
C12_NoFailureFatal ==
  /\ ~Panicked
  /\ exited => \E l \in Loops : LoopPc(l) = "exit"

\* ---- C13 ------------------------------------------------------------------
\* The heartbeat goroutines that exist.
LiveLoops == {l \in Loops : Depth(l) > 0}

\* C13: at most one heartbeat goroutine (with its ticker) is alive.
C13_SingleHeartbeatLoop == Cardinality(LiveLoops) <= 1

\* ---- C14 ------------------------------------------------------------------
\* The contexts with a registry request in flight.
InFlight == {c \in Ctx : Depth(c) > 0 /\ Top(c).pc = "await"}

\* C14: once a heartbeat loop has been started at most one registry request
\* is in flight: no two SendHeartbeat() at once, no DOWN POST together with
\* a heartbeat PUT or a POST of a re-registration.
C14_SequentialRegistryCalls == nLoops > 0 => Cardinality(InFlight) <= 1

\* ---- C15 ------------------------------------------------------------------
\* Context c sends a request in this step.
Sends(c) == last'[c] # last[c] /\ last'[c].res = "pending"

\* C15: once the shutdown sequence has sent its DOWN POST, no STARTING
\* POST, UP POST or heartbeat PUT is sent any more.
C15_DownIsTerminal ==
  [][sent["DOWN"] > 0 => \A c \in Ctx : Sends(c) => last'[c].kind = "DOWN"]_vars

\* ---- C16 ------------------------------------------------------------------
\* C16: once an interrupt has been delivered (a heartbeat loop exists then),
\* the process sends a DOWN POST and ends, whatever the registry answers.
C16_ShutdownLiveness == (signals > 0) ~> (exited /\ sent["DOWN"] > 0)

\* ---- C17 ------------------------------------------------------------------
Retriers == {f \in AllFrames : f.fn \in {"Register", "Up", "SendHeartbeat"}}

\* C17: in Register(), Up() and SendHeartbeat() a transport error and a bad
\* status are handled alike: one sleep of RETRY_SECONDS, then exactly one
\* call of Register().
C17_UniformFailureHandling ==
  \A f \in Retriers :
    /\ Sleeping(f) => (f.nap = RETRY_SECONDS /\ f.regCalls = 0)
    /\ f.regCalls <= 1
    /\ f.pc = "inRegister" => f.regCalls = 1
    /\ f.pc # "again"

\* ---- C18 ------------------------------------------------------------------
DescriptorOrder ==
  \A c \in Ctx : Sends(c) =>
    /\ last'[c].kind = "UP" =>
         (last[c] = Request("STARTING", "pending") /\ faults' = faults)
    /\ last'[c].kind = "PUT" => upOk >= 1
    /\ last'[c].kind = "DOWN" => upOk >= 1

\* C18: an UP POST is sent only in the step in which the STARTING POST of
\* the same context is answered with success, nothing sent in between; a
\* heartbeat PUT and a DOWN POST are sent only after an UP POST has
\* succeeded.
C18_DescriptorStateOrder == [][DescriptorOrder]_vars

\* After a failed heartbeat the loop has re-registered (STARTING, then UP,
\* both answered with success) and a DOWN POST is in flight.
C18_Witness ==
  /\ \E l \in Loops : last[l] = Request("DOWN", "pending")
  /\ upOk >= 2
  /\ sent["STARTING"] >= 2

\* ---- C19 ------------------------------------------------------------------
\* The calls of Register, Up and Down that have sent no request.
Encoders == {"Register", "Up", "Down"}
Unsent == {f \in AllFrames : f.fn \in Encoders /\ f.posts = 0}

AbortsClean ==
  \A f \in Unsent :
    /\ f.pc = "ret" /\ f \in ReturnedFrames
    /\ f.fails = 0 /\ f.waits = 0 /\ f.nap = 0
    /\ f.regCalls = 0 /\ f.ups = 0 /\ f.daemons = 0

\* In this step a call that could not encode its descriptor returns.
AbortReturns ==
  /\ Len(returned'.frames) >= 1
  /\ returned'.frames[1].fn \in Encoders
  /\ returned'.frames[1].posts = 0

AbortsAtOnce ==
  AbortReturns =>
    /\ sent' = sent /\ nLoops' = nLoops /\ upOk' = upOk /\ faults' = faults
    /\ \A c \in Ctx : ~Sends(c)
    /\ timer' = timer
    /\ \A c \in Ctx : c # returned'.ctx => stack'[c] = stack[c]

\* C19: a Register(), Up() or Down() whose descriptor cannot be encoded
\* returns in the step in which it is called: it sends no request, does not
\* sleep, calls neither Register() nor Up() and starts no heartbeat loop.
C19_SerializationFailureAborts == [](AbortsClean) /\ [][AbortsAtOnce]_vars

\* Register()'s POST succeeded, its Up() could not encode its descriptor:
\* Register() has returned to the program, no UP POST sent, no loop started.
C19_Witness ==
  /\ Len(returned.frames) = 2
  /\ returned.frames[1].fn = "Up" /\ returned.frames[1].posts = 0
  /\ returned.frames[2].fn = "Register"
  /\ At(0, "main", "serve")
  /\ sent["STARTING"] = 1 /\ sent["UP"] = 0 /\ nLoops = 0

\* ---- C20 ------------------------------------------------------------------
\* The loops that have taken a signal from the quit channel.
Stopping == {l \in LiveLoops : LoopPc(l) \in {"inDown", "grace", "exit"}}

\* C20: every UP POST answered with success has started one heartbeat loop
\* and nothing else has; no loop ever ends before the process does, so the
\* live loops are as many as the successful UP POSTs; and every signal that
\* entered the quit channel is still buffered there or was taken by exactly
\* one loop.
C20_LoopAccounting ==
  /\ nLoops = upOk
  /\ LiveLoops = 1 .. upOk
  /\ \A l \in LiveLoops : ticker[l].left > 0
  /\ \A l \in LiveLoops \ Stopping : ~ticker[l].stopped
  /\ Cardinality(Stopping) + quit <= signals
  /\ signals >= 1 => Cardinality(Stopping) + quit >= 1
  /\ signals = 1 => Cardinality(Stopping) + quit = 1

\* Three loops are alive after three successful UP POSTs, and one of them
\* has taken the signal.
C20_Witness ==
  /\ upOk = 3 /\ Cardinality(LiveLoops) = 3
  /\ signals = 1 /\ quit = 0 /\ Cardinality(Stopping) = 1

====
